---------------------------- MODULE Spec2Model ----------------------------
(***************************************************************************)
(* Model of workflowHandler.js (src/ecosystem.config.cjs, lines 45-719):   *)
(* uploadFileToDify and handleRequest, the OpenAI -> Dify workflow         *)
(* translation handler.                                                    *)
(*                                                                         *)
(* Text is modelled as a sequence of characters, a backend body as a       *)
(* sequence of bytes.  A character or byte is written as a short string.   *)
(* Some of them stand for a fixed run of ASCII characters that the code    *)
(* never looks inside ("data:" is the five-character SSE prefix, "wf" is   *)
(* the JSON text  "event":"workflow_finished","data":{"outputs":{  and     *)
(* so on, see JSONparse).  "C3","A9" are the two UTF-8 bytes of one        *)
(* non-ASCII character, written "e_acute" once decoded.                    *)
(***************************************************************************)
EXTENDS Integers, Sequences, FiniteSets, TLC

VARIABLES
    pc,               \* position of handleRequest / which callbacks are registered
    messages,         \* req.body.messages
    stream,           \* req.body.stream
    config,           \* SYSTEM_INPUT_VARIABLE, INPUT_VARIABLE, OUTPUT_VARIABLE ("" = unset)
    scan,             \* position of the image scan loop (index into ImageParts)
    uploads,          \* the calls of uploadFileToDify so far, in order
    inputs,           \* the inputs object, a set of <<key, value>> pairs
    systemPrompt,
    userQuery,
    fetched,          \* number of POSTs to /workflows/run
    resp,             \* the backend response: status, content type, JSON document, body bytes
    pos,              \* number of body bytes the backend stream has emitted so far
    buffer,           \* the line buffer of the 'data' handlers
    isResponseEnded,  \* the latch of the streaming path
    result,           \* blocking path: the extracted result
    usageData,        \* blocking path: the usage object
    hasError,         \* collected path: an error frame was seen
    frames,           \* the chunkObj values dispatched so far (history)
    res               \* the client response: statusCode, contentType, log of calls

vars == <<pc, messages, stream, config, scan, uploads, inputs, systemPrompt,
          userQuery, fetched, resp, pos, buffer, isResponseEnded, result,
          usageData, hasError, frames, res>>

requestVars == <<messages, scan, uploads, inputs, systemPrompt, userQuery, fetched>>

responseVars == <<resp, pos, buffer, isResponseEnded, result, usageData,
                  hasError, frames, res>>

-----------------------------------------------------------------------------
(* Bounds of the model. *)

\* Lines in a backend body.
MaxFrames == 2

\* Messages in a request.
MaxMessages == 2

-----------------------------------------------------------------------------
(* JavaScript values and strings. *)

Whitespace == {"sp", "nl"}

\* A JavaScript value: undefined, a string, an object (the outputs mapping, a
\* set of <<key, string>> pairs) or an array (of FileInput objects).
Undefined == [t |-> "undefined", s |-> <<>>, o |-> {}, a |-> <<>>]

Str(s) == [t |-> "string", s |-> s, o |-> {}, a |-> <<>>]

Obj(o) == [t |-> "object", s |-> <<>>, o |-> o, a |-> <<>>]

Arr(a) == [t |-> "array", s |-> <<>>, o |-> {}, a |-> a]

RECURSIVE trimStart(_)
trimStart(s) ==
    IF s = <<>> THEN s
    ELSE IF Head(s) \in Whitespace THEN trimStart(Tail(s)) ELSE s

RECURSIVE trimEnd(_)
trimEnd(s) ==
    IF s = <<>> THEN s
    ELSE IF s[Len(s)] \in Whitespace THEN trimEnd(SubSeq(s, 1, Len(s) - 1)) ELSE s

\* String.prototype.trim
trim(s) == trimEnd(trimStart(s))

\* String.prototype.startsWith, for a prefix given as a sequence
startsWith(s, p) == Len(s) >= Len(p) /\ SubSeq(s, 1, Len(p)) = p

\* String.prototype.endsWith, for a one-character suffix
endsWith(s, c) == Len(s) >= 1 /\ s[Len(s)] = c

\* String.prototype.slice(n)
slice(s, n) == SubSeq(s, n + 1, Len(s))

\* buffer.split("\n"): the pieces between newlines; the last piece is what
\* follows the last newline (empty if the text ends with one).
RECURSIVE split(_)
split(s) ==
    LET nls == {i \in 1..Len(s) : s[i] = "nl"}
    IN  IF nls = {} THEN <<s>>
        ELSE LET i == CHOOSE j \in nls : \A k \in nls : j <= k
             IN  <<SubSeq(s, 1, i - 1)>> \o split(SubSeq(s, i + 1, Len(s)))

\* chunk.toString(): UTF-8 decoding of one chunk.  A lead byte with no
\* continuation byte after it in the same chunk, and a continuation byte with no
\* lead byte before it, each decode to U+FFFD.
RECURSIVE toString(_)
toString(bytes) ==
    IF bytes = <<>> THEN <<>>
    ELSE IF Head(bytes) = "C3"
         THEN IF Len(bytes) >= 2 /\ bytes[2] = "A9"
              THEN <<"e_acute">> \o toString(SubSeq(bytes, 3, Len(bytes)))
              ELSE <<"ufffd">> \o toString(Tail(bytes))
         ELSE IF Head(bytes) = "A9"
              THEN <<"ufffd">> \o toString(Tail(bytes))
              ELSE <<Head(bytes)>> \o toString(Tail(bytes))

-----------------------------------------------------------------------------
(* JSON.parse of one frame.                                                *)
(*   "{"            {                                                      *)
(*   "ws" "ns" "nf" "pg" "uk"   "event":"workflow_started" | node_started  *)
(*                  | node_finished | ping | an event the handler does not *)
(*                  know                                                   *)
(*   "wf"           "event":"workflow_finished","data":{"outputs":{        *)
(*   "kA" "kO"      "answer":"   "other":"   (a key of outputs; the        *)
(*                  characters after it, up to the next key, are its value)*)
(*   "t0" "t42"     },"total_tokens":0   },"total_tokens":42               *)
(*   "er"           "event":"error","message":"                            *)
(*   "}"            the closing quotes and braces                          *)
(***************************************************************************)

StringChars == {"x", "e_acute", "ufffd"}

OutputKeys == {"kA", "kO"}

TokenFields == {"t0", "t42"}

EventOf(tok) ==
    CASE tok = "ws" -> "workflow_started"
      [] tok = "ns" -> "node_started"
      [] tok = "nf" -> "node_finished"
      [] tok = "wf" -> "workflow_finished"
      [] tok = "pg" -> "ping"
      [] tok = "er" -> "error"
      [] OTHER -> "unknown"

EventTokens == {"ws", "ns", "nf", "wf", "pg", "er", "uk"}

\* The name of an outputs key.
KeyName(k) == IF k = "kA" THEN "answer" ELSE "other"

\* The value of the key at position p of body: the string characters after it.
ValueAt(body, p) ==
    LET stops == {j \in (p + 1)..Len(body) : body[j] \notin StringChars}
        e == IF stops = {} THEN Len(body)
             ELSE (CHOOSE j \in stops : \A k \in stops : j <= k) - 1
    IN  SubSeq(body, p + 1, e)

\* The outputs object of a workflow_finished body; a repeated key keeps its
\* last value, as JSON.parse does.
OutputsOf(body) ==
    { <<KeyName(k),
        ValueAt(body, CHOOSE p \in 1..Len(body) :
                        body[p] = k /\ \A q \in 1..Len(body) : body[q] = k => q <= p)>> :
      k \in {c \in OutputKeys : \E p \in 1..Len(body) : body[p] = c} }

\* Is body the text of a workflow_finished frame's outputs and total_tokens?
WellFormedOutputs(body) ==
    /\ \A i \in 1..Len(body) : body[i] \in OutputKeys \cup StringChars \cup TokenFields
    /\ body # <<>> => body[1] \in OutputKeys \cup TokenFields
    /\ \A i \in 1..Len(body) : body[i] \in TokenFields => i = Len(body)

\* JSON.parse(line): ok = FALSE stands for the SyntaxError it throws.
NoFrame == [ok |-> FALSE, event |-> "", outputs |-> {}, message |-> <<>>, total_tokens |-> -1]

JSONparse(line) ==
    IF Len(line) >= 3 /\ line[1] = "{" /\ line[Len(line)] = "}" /\ line[2] \in EventTokens
    THEN LET ev == line[2]
             body == SubSeq(line, 3, Len(line) - 1)
         IN  IF ev = "wf"
             THEN IF WellFormedOutputs(body)
                  THEN [ok |-> TRUE, event |-> EventOf(ev), outputs |-> OutputsOf(body),
                        message |-> <<>>,
                        total_tokens |-> IF body # <<>> /\ body[Len(body)] = "t0" THEN 0
                                         ELSE IF body # <<>> /\ body[Len(body)] = "t42" THEN 42
                                         ELSE -1]
                  ELSE NoFrame
             ELSE IF ev = "er"
             THEN IF \A i \in 1..Len(body) : body[i] \in StringChars
                  THEN [ok |-> TRUE, event |-> EventOf(ev), outputs |-> {},
                        message |-> body, total_tokens |-> -1]
                  ELSE NoFrame
             ELSE IF body = <<>>
                  THEN [ok |-> TRUE, event |-> EventOf(ev), outputs |-> {},
                        message |-> <<>>, total_tokens |-> -1]
                  ELSE NoFrame
    ELSE NoFrame

\* outputs[key]
Get(outputs, key) ==
    IF \E p \in outputs : p[1] = key
    THEN Str((CHOOSE p \in outputs : p[1] = key)[2])
    ELSE Undefined

-----------------------------------------------------------------------------
(* The client response res.  log holds the calls that produce the body, in *)
(* order: write, end, send, json.                                          *)

NewRes == [statusCode |-> 200, contentType |-> "", log |-> <<>>]

Call(op, data, content, usage) ==
    [op |-> op, data |-> data, content |-> content, usage |-> usage]

\* res.write("data: " + JSON.stringify({object: "chat.completion.chunk",
\*   choices: [{delta: {content: result}, finish_reason: "stop"}]}) + "\n\n")
WriteChunk(r) == Call("write", "chat.completion.chunk", r, -1)

\* res.write("data: [DONE]\n\n")
WriteDone == Call("write", "[DONE]", Undefined, -1)

\* res.write(`data: ${JSON.stringify({ error: chunkObj.message })}\n\n`)
WriteError(m) == Call("write", "error", Str(m), -1)

\* res.end()
End == Call("end", "", Undefined, -1)

\* Mutant of Extract: the field "answer" is extracted whatever OUTPUT_VARIABLE is.
ExtractAnswer(outputs, OUTPUT_VARIABLE) == Get(outputs, "answer")

\* the result of a workflow_finished frame or of a JSON document
Extract(outputs, OUTPUT_VARIABLE) ==
    IF OUTPUT_VARIABLE # "" THEN Get(outputs, OUTPUT_VARIABLE) ELSE Obj(outputs)

-----------------------------------------------------------------------------
(* Streaming path: the 'data' handler.  st is the state the handler's      *)
(* closure holds: buffer, isResponseEnded, res, and the history frames.    *)

\* a ping frame ends the response
streamDispatchPingEnds(st, chunkObj, OUTPUT_VARIABLE) ==
    IF chunkObj.event = "workflow_finished"
    THEN IF ~st.isResponseEnded
         THEN [st EXCEPT !.res.log = @ \o <<WriteChunk(Extract(chunkObj.outputs, OUTPUT_VARIABLE)),
                                             WriteDone, End>>,
                         !.isResponseEnded = TRUE]
         ELSE st
    ELSE IF chunkObj.event = "error"
    THEN [st EXCEPT !.res.statusCode = 500,
                    !.res.log = @ \o <<WriteError(chunkObj.message)>>
                                  \o (IF ~st.isResponseEnded THEN <<WriteDone>> ELSE <<>>)
                                  \o <<End>>,
                    !.isResponseEnded = TRUE]
    ELSE IF chunkObj.event = "ping"
    THEN [st EXCEPT !.res.log = @ \o <<End>>, !.isResponseEnded = TRUE]
    ELSE st

\* the workflow_finished branch writes without testing isResponseEnded
streamDispatchUnguarded(st, chunkObj, OUTPUT_VARIABLE) ==
    IF chunkObj.event = "workflow_finished"
    THEN [st EXCEPT !.res.log = @ \o <<WriteChunk(Extract(chunkObj.outputs, OUTPUT_VARIABLE)),
                                        WriteDone, End>>,
                    !.isResponseEnded = TRUE]
    ELSE IF chunkObj.event = "error"
    THEN [st EXCEPT !.res.statusCode = 500,
                    !.res.log = @ \o <<WriteError(chunkObj.message)>>
                                  \o (IF ~st.isResponseEnded THEN <<WriteDone>> ELSE <<>>)
                                  \o <<End>>,
                    !.isResponseEnded = TRUE]
    ELSE st

\* the error branch does not set isResponseEnded
streamDispatchUnlatched(st, chunkObj, OUTPUT_VARIABLE) ==
    IF chunkObj.event = "workflow_finished"
    THEN IF ~st.isResponseEnded
         THEN [st EXCEPT !.res.log = @ \o <<WriteChunk(Extract(chunkObj.outputs, OUTPUT_VARIABLE)),
                                             WriteDone, End>>,
                         !.isResponseEnded = TRUE]
         ELSE st
    ELSE IF chunkObj.event = "error"
    THEN [st EXCEPT !.res.statusCode = 500,
                    !.res.log = @ \o <<WriteError(chunkObj.message)>>
                                  \o (IF ~st.isResponseEnded THEN <<WriteDone>> ELSE <<>>)
                                  \o <<End>>]
    ELSE st

\* the error branch writes [DONE] without testing isResponseEnded
streamDispatchSentinelUnguarded(st, chunkObj, OUTPUT_VARIABLE) ==
    IF chunkObj.event = "workflow_finished"
    THEN IF ~st.isResponseEnded
         THEN [st EXCEPT !.res.log = @ \o <<WriteChunk(Extract(chunkObj.outputs, OUTPUT_VARIABLE)),
                                             WriteDone, End>>,
                         !.isResponseEnded = TRUE]
         ELSE st
    ELSE IF chunkObj.event = "error"
    THEN [st EXCEPT !.res.statusCode = 500,
                    !.res.log = @ \o <<WriteError(chunkObj.message), WriteDone, End>>,
                    !.isResponseEnded = TRUE]
    ELSE st

\* the if/else chain on chunkObj.event
streamDispatch(st, chunkObj, OUTPUT_VARIABLE) ==
    IF chunkObj.event = "workflow_finished"
    THEN IF ~st.isResponseEnded
         THEN [st EXCEPT !.res.log = @ \o <<WriteChunk(Extract(chunkObj.outputs, OUTPUT_VARIABLE)),
                                             WriteDone, End>>,
                         !.isResponseEnded = TRUE]
         ELSE st
    ELSE IF chunkObj.event = "error"
    THEN [st EXCEPT !.res.statusCode = 500,
                    !.res.log = @ \o <<WriteError(chunkObj.message)>>
                                  \o (IF ~st.isResponseEnded THEN <<WriteDone>> ELSE <<>>)
                                  \o <<End>>,
                    !.isResponseEnded = TRUE]
    ELSE st

\* one iteration of the loop over the complete lines
streamLine(st, raw, OUTPUT_VARIABLE) ==
    LET line == trim(raw)
    IN  IF ~startsWith(line, <<"data:">>) THEN st
        ELSE LET rest == trim(slice(line, 1))
             IN  IF ~startsWith(rest, <<"{">>) THEN st
                 ELSE LET chunkObj == JSONparse(rest)
                      IN  IF ~chunkObj.ok THEN st
                          ELSE streamDispatch([st EXCEPT !.frames = Append(@, chunkObj)],
                                              chunkObj, OUTPUT_VARIABLE)

\* the loop is left at the first line that is no frame
RECURSIVE streamLinesStopping(_, _, _, _)
streamLinesStopping(st, lines, i, OUTPUT_VARIABLE) ==
    IF i > Len(lines) - 1 THEN st
    ELSE LET next == streamLine(st, lines[i], OUTPUT_VARIABLE)
         IN  IF next.frames = st.frames THEN st
             ELSE streamLinesStopping(next, lines, i + 1, OUTPUT_VARIABLE)

\* for (let i = 0; i < lines.length - 1; i++)
RECURSIVE streamLines(_, _, _, _)
streamLines(st, lines, i, OUTPUT_VARIABLE) ==
    IF i > Len(lines) - 1 THEN st
    ELSE streamLines(streamLine(st, lines[i], OUTPUT_VARIABLE), lines, i + 1, OUTPUT_VARIABLE)

\* .on("data", (chunk) => ...)
streamOnData(st, chunk, OUTPUT_VARIABLE) ==
    LET joined == st.buffer \o toString(chunk)
        lines == split(joined)
        after == streamLines([st EXCEPT !.buffer = joined], lines, 1, OUTPUT_VARIABLE)
    IN  [after EXCEPT !.buffer = lines[Len(lines)]]

-----------------------------------------------------------------------------
(* Blocking path. *)

\* x || 110, for x a number or undefined (-1): undefined and 0 are falsy
Or110(x) == IF x = -1 \/ x = 0 THEN 110 ELSE x

\* res.json(formattedResponse) / res.send(JSON.stringify(formattedResponse)):
\* {object: "chat.completion", choices: [{message: {role: "assistant",
\*   content: result}, finish_reason: "stop"}], usage: usageData}
ChatResponse(op, r, u) == Call(op, "chat.completion", r, u)

\* res.status(500).json({ error: "An error occurred while processing the request." })
ErrorDocument == Call("json", "error", Str(<<"An error occurred while processing the request.">>), -1)

\* the content-type application/json branch: st holds result, usageData, res
blockingJson(st, jsonData, OUTPUT_VARIABLE) ==
    LET got == IF jsonData.hasOutputs
               THEN [st EXCEPT !.result = Extract(jsonData.outputs, OUTPUT_VARIABLE),
                               !.usageData = Or110(jsonData.total_tokens)]
               ELSE st
    IN  [got EXCEPT !.res.contentType = "application/json",
                    !.res.log = Append(@, ChatResponse("json", got.result, got.usageData))]

\* line.replace(/^data: /, "")
replaceDataPrefix(line) ==
    IF startsWith(line, <<"data:", "sp">>) THEN slice(line, 2) ELSE line

\* the if/else chain of the collected path
collectDispatch(st, chunkObj, OUTPUT_VARIABLE) ==
    IF chunkObj.event = "workflow_finished"
    THEN [st EXCEPT !.result = Extract(chunkObj.outputs, OUTPUT_VARIABLE),
                    !.usageData = Or110(chunkObj.total_tokens)]
    ELSE IF chunkObj.event = "error"
    THEN [st EXCEPT !.hasError = TRUE, !.break = TRUE]
    ELSE st

\* one iteration of the collected path's loop over the complete lines
collectLine(st, raw, OUTPUT_VARIABLE) ==
    LET line == trim(raw)
    IN  IF line = <<>> THEN st
        ELSE LET cleanedLine == trim(replaceDataPrefix(line))
             IN  IF ~(startsWith(cleanedLine, <<"{">>) /\ endsWith(cleanedLine, "}")) THEN st
                 ELSE LET chunkObj == JSONparse(cleanedLine)
                      IN  IF ~chunkObj.ok THEN st
                          ELSE collectDispatch([st EXCEPT !.frames = Append(@, chunkObj)],
                                               chunkObj, OUTPUT_VARIABLE)

\* the loop, which an error frame leaves with break
RECURSIVE collectLines(_, _, _, _)
collectLines(st, lines, i, OUTPUT_VARIABLE) ==
    IF i > Len(lines) - 1 THEN st
    ELSE LET next == collectLine(st, lines[i], OUTPUT_VARIABLE)
         IN  IF next.break THEN next
             ELSE collectLines(next, lines, i + 1, OUTPUT_VARIABLE)

\* responseStream.on("data", (chunk) => ...)
collectOnData(st, chunk, OUTPUT_VARIABLE) ==
    LET joined == st.buffer \o toString(chunk)
        lines == split(joined)
        after == collectLines([st EXCEPT !.buffer = joined, !.break = FALSE], lines, 1,
                              OUTPUT_VARIABLE)
    IN  [after EXCEPT !.buffer = lines[Len(lines)]]

\* the 'end' handler sends the Chat Response after the error document
collectOnEndWithoutElse(st) ==
    LET failed == IF st.hasError
                  THEN [st EXCEPT !.res.statusCode = 500, !.res.log = Append(@, ErrorDocument)]
                  ELSE st
    IN  [failed EXCEPT !.res.contentType = "application/json",
                       !.res.log = Append(@, ChatResponse("send", st.result, st.usageData))]

\* the 'end' handler sends the Chat Response whatever hasError says
collectOnEndIgnoringError(st) ==
    [st EXCEPT !.res.contentType = "application/json",
               !.res.log = Append(@, ChatResponse("send", st.result, st.usageData))]

\* responseStream.on("end", () => ...)
collectOnEnd(st) ==
    IF st.hasError
    THEN [st EXCEPT !.res.statusCode = 500, !.res.log = Append(@, ErrorDocument)]
    ELSE [st EXCEPT !.res.contentType = "application/json",
                    !.res.log = Append(@, ChatResponse("send", st.result, st.usageData))]

\* Mutant of forwardUpstream: the failure is answered as a 500 JSON error.
forwardUpstreamAs500(r, response) ==
    [r EXCEPT !.statusCode = 500,
              !.log = Append(@, Call("json", "error", Str(toString(response.body)), -1))]

\* if (!resp.ok) { res.status(resp.status).send(await resp.text()); return; }
forwardUpstream(r, response) ==
    [r EXCEPT !.statusCode = response.status,
              !.log = Append(@, Call("send", "body", Str(toString(response.body)), -1))]

-----------------------------------------------------------------------------
(* The request: messages, content parts, image URLs.                       *)
(* A message is [role, isArray, text, parts]: content is the string text,  *)
(* or the array parts when isArray.  A part is [type, text, url]; type     *)
(* "string" is a bare string inside a content array.                       *)

DataUris == {"data:image/png;base64,AAAA", "data:image/jpg;base64,BBBB", "data:oops"}

\* imageUrl.startsWith('data:')
IsDataUri(url) == url \in DataUris

\* base64Data.match(/^data:(.+);base64,(.+)$/)
MatchesBase64(url) == url \in {"data:image/png;base64,AAAA", "data:image/jpg;base64,BBBB"}

\* getFileType(getFileExtension(imageUrl)) of utils.js: the file-type category
getFileType(url) == "image"

TextPart(t) == [type |-> "text", text |-> t, url |-> ""]

ImagePart(u) == [type |-> "image_url", text |-> <<>>, url |-> u]

StringContent(t) == [isArray |-> FALSE, text |-> t, parts |-> <<>>]

ArrayContent(ps) == [isArray |-> TRUE, text |-> <<>>, parts |-> ps]

\* all content parts of all array-content messages, in the order the scan
\* loops visit them
RECURSIVE AllParts(_)
AllParts(msgs) ==
    IF msgs = <<>> THEN <<>>
    ELSE (IF Head(msgs).isArray THEN Head(msgs).parts ELSE <<>>) \o AllParts(Tail(msgs))

\* if (content.type === "image_url" && content.image_url && content.image_url.url)
IsImage(part) == part.type = "image_url" /\ part.url # ""

\* inputs[key] = value
Assign(obj, key, value) == {p \in obj : p[1] # key} \cup {<<key, value>>}

Has(obj, key) == \E p \in obj : p[1] = key

Lookup(obj, key) == IF Has(obj, key) THEN (CHOOSE p \in obj : p[1] = key)[2] ELSE Undefined

\* inputs["file_input"] is set to an array of the one fileInput
pushFileInputReplacing(obj, fileInput) ==
    Assign(obj, "file_input", Arr(<<fileInput>>))

\* if (!inputs["file_input"]) inputs["file_input"] = []; inputs["file_input"].push(fileInput)
pushFileInput(obj, fileInput) ==
    Assign(obj, "file_input",
           Arr(Append(IF Has(obj, "file_input") THEN Lookup(obj, "file_input").a ELSE <<>>,
                      fileInput)))

\* Mutant of LocalFile: the data: URI is passed on in place of the id the
\* upload returned.
LocalFileWithUri(fileId, url) ==
    [transfer_method |-> "local_file", upload_file_id |-> url, url |-> "",
     type |-> getFileType(url)]

LocalFile(fileId, url) ==
    [transfer_method |-> "local_file", upload_file_id |-> fileId, url |-> "",
     type |-> getFileType(url)]

RemoteUrl(url) ==
    [transfer_method |-> "remote_url", upload_file_id |-> "", url |-> url,
     type |-> getFileType(url)]

\* the text one message adds to systemPrompt (lines 228-238)
RECURSIVE systemParts(_)
systemParts(ps) ==
    IF ps = <<>> THEN <<>>
    ELSE (IF Head(ps).type \in {"string", "text"} THEN Head(ps).text \o <<"nl">> ELSE <<>>)
         \o systemParts(Tail(ps))

\* the loop that extracts the system messages
RECURSIVE extractSystem(_)
extractSystem(msgs) ==
    IF msgs = <<>> THEN <<>>
    ELSE (IF Head(msgs).role = "system"
          THEN IF Head(msgs).isArray THEN systemParts(Head(msgs).parts)
               ELSE Head(msgs).text \o <<"nl">>
          ELSE <<>>)
         \o extractSystem(Tail(msgs))

\* the text one message adds to userQuery (lines 252-274)
RECURSIVE userParts(_)
userParts(ps) ==
    IF ps = <<>> THEN <<>>
    ELSE (IF Head(ps).type \in {"string", "text"} THEN Head(ps).text \o <<"nl">> ELSE <<>>)
         \o userParts(Tail(ps))

\* Mutant of extractUser: only the last message is read.
extractUserLastOnly(msgs) ==
    IF msgs = <<>> THEN <<>>
    ELSE LET last == msgs[Len(msgs)]
         IN  IF last.role = "user"
             THEN IF last.isArray THEN userParts(last.parts) ELSE last.text \o <<"nl">>
             ELSE <<>>

\* the loop that extracts the user messages
RECURSIVE extractUser(_)
extractUser(msgs) ==
    IF msgs = <<>> THEN <<>>
    ELSE (IF Head(msgs).role = "user"
          THEN IF Head(msgs).isArray THEN userParts(Head(msgs).parts)
               ELSE Head(msgs).text \o <<"nl">>
          ELSE <<>>)
         \o extractUser(Tail(msgs))

\* config.INPUT_VARIABLE || "text_input"
inputVariable(cfg) == IF cfg.INPUT_VARIABLE # "" THEN cfg.INPUT_VARIABLE ELSE "text_input"

\* the merge does not test that SYSTEM_INPUT_VARIABLE is unset
mapInputsMergedAlso(obj, cfg, sys, usr) ==
    LET withSystem == IF cfg.SYSTEM_INPUT_VARIABLE # "" /\ sys # <<>>
                      THEN Assign(obj, cfg.SYSTEM_INPUT_VARIABLE, Str(sys))
                      ELSE obj
        withUser == Assign(withSystem, inputVariable(cfg), Str(usr))
    IN  IF sys # <<>>
        THEN Assign(withUser, inputVariable(cfg), Str(sys \o <<"nl", "nl">> \o usr))
        ELSE withUser

\* Mutant of mapInputs: the merge does not test that systemPrompt is non-empty.
mapInputsAlwaysMerged(obj, cfg, sys, usr) ==
    LET withSystem == IF cfg.SYSTEM_INPUT_VARIABLE # "" /\ sys # <<>>
                      THEN Assign(obj, cfg.SYSTEM_INPUT_VARIABLE, Str(sys))
                      ELSE obj
        withUser == Assign(withSystem, inputVariable(cfg), Str(usr))
    IN  IF cfg.SYSTEM_INPUT_VARIABLE = ""
        THEN Assign(withUser, inputVariable(cfg), Str(sys \o <<"nl", "nl">> \o usr))
        ELSE withUser

\* lines 310-343: the inputs object after the system prompt and the user
\* query have been set
mapInputs(obj, cfg, sys, usr) ==
    LET withSystem == IF cfg.SYSTEM_INPUT_VARIABLE # "" /\ sys # <<>>
                      THEN Assign(obj, cfg.SYSTEM_INPUT_VARIABLE, Str(sys))
                      ELSE obj
        withUser == Assign(withSystem, inputVariable(cfg), Str(usr))
    IN  IF cfg.SYSTEM_INPUT_VARIABLE = "" /\ sys # <<>>
        THEN Assign(withUser, inputVariable(cfg), Str(sys \o <<"nl", "nl">> \o usr))
        ELSE withUser

\* the catch block: res.status(500).json({ error: error.message })
sendError(r, message) ==
    [r EXCEPT !.statusCode = 500,
              !.log = Append(@, Call("json", "error", Str(<<message>>), -1))]

\* the scan posts every upload without awaiting its response
RECURSIVE runScanParallel(_, _, _, _)
runScanParallel(st, msgs, cfg, from) ==
    LET all == AllParts(msgs)
    IN  IF from > Len(all)
        THEN LET sys == trim(extractSystem(msgs))
                 usr == trim(trim(extractUser(msgs)))
             IN  [st EXCEPT !.scan = Len(all),
                            !.systemPrompt = sys,
                            !.userQuery = usr,
                            !.inputs = mapInputs(st.inputs, cfg, sys, usr),
                            !.fetched = @ + 1,
                            !.pc = "fetch"]
        ELSE LET part == all[from]
             IN  IF ~IsImage(part) THEN runScanParallel(st, msgs, cfg, from + 1)
                 ELSE IF IsDataUri(part.url)
                 THEN IF MatchesBase64(part.url)
                      THEN runScanParallel(
                               [st EXCEPT !.uploads = Append(@, [url |-> part.url,
                                                                 posted |-> TRUE, id |-> ""])],
                               msgs, cfg, from + 1)
                      ELSE [st EXCEPT !.scan = from - 1,
                                      !.uploads = Append(@, [url |-> part.url, posted |-> FALSE,
                                                             id |-> ""]),
                                      !.res = sendError(@, "Invalid base64 data"),
                                      !.pc = "done"]
                 ELSE runScanParallel([st EXCEPT !.inputs = pushFileInput(@, RemoteUrl(part.url))],
                                      msgs, cfg, from + 1)

\* The handler runs from part number from of AllParts to its next await.
\* st holds pc, scan, uploads, inputs, systemPrompt, userQuery, fetched, res.
\*  - an http(s) image: a remote_url FileInput is pushed, the loop goes on;
\*  - a data: image: uploadFileToDify is called; either it throws at once
\*    (no match: the catch block answers) or it posts the file and the handler
\*    waits for the upload's response;
\*  - no part left: the prompts are extracted and trimmed, inputs is filled
\*    and the workflow request is posted.
RECURSIVE runScan(_, _, _, _)
runScan(st, msgs, cfg, from) ==
    LET all == AllParts(msgs)
    IN  IF from > Len(all)
        THEN LET sys == trim(extractSystem(msgs))
                 usr == trim(trim(extractUser(msgs)))
             IN  [st EXCEPT !.scan = Len(all),
                            !.systemPrompt = sys,
                            !.userQuery = usr,
                            !.inputs = mapInputs(st.inputs, cfg, sys, usr),
                            !.fetched = @ + 1,
                            !.pc = "fetch"]
        ELSE LET part == all[from]
             IN  IF ~IsImage(part) THEN runScan(st, msgs, cfg, from + 1)
                 ELSE IF IsDataUri(part.url)
                 THEN IF MatchesBase64(part.url)
                      THEN [st EXCEPT !.scan = from - 1,
                                      !.uploads = Append(@, [url |-> part.url, posted |-> TRUE,
                                                             id |-> ""]),
                                      !.pc = "uploading"]
                      ELSE [st EXCEPT !.scan = from - 1,
                                      !.uploads = Append(@, [url |-> part.url, posted |-> FALSE,
                                                             id |-> ""]),
                                      !.res = sendError(@, "Invalid base64 data"),
                                      !.pc = "done"]
                 ELSE runScan([st EXCEPT !.inputs = pushFileInput(@, RemoteUrl(part.url))],
                              msgs, cfg, from + 1)

\* the upload's response is ok: uploadFileToDify returns result.id, the
\* local_file FileInput is pushed and the scan goes on
uploadReturned(st, msgs, cfg, fileId) ==
    LET url == AllParts(msgs)[st.scan + 1].url
    IN  runScan([st EXCEPT !.uploads[Len(st.uploads)].id = fileId,
                           !.inputs = pushFileInput(@, LocalFile(fileId, url))],
                msgs, cfg, st.scan + 2)

\* the upload's failure is swallowed and the handler goes on to the workflow request
uploadFailedIgnored(st) ==
    [st EXCEPT !.fetched = @ + 1, !.pc = "fetch"]

\* the upload's response is not ok: uploadFileToDify throws, the catch block answers
uploadFailed(st) ==
    [st EXCEPT !.res = sendError(@, "upload failed"), !.pc = "done"]

-----------------------------------------------------------------------------
(* The backend responses the model draws from. *)

\* The lines a backend body is made of.
BodyLines ==
    { <<"data:", "sp", "{", "wf", "kA", "x", "}">>,
      <<"data:", "sp", "{", "wf", "kA", "C3", "A9", "}">>,
      <<"data:", "sp", "{", "wf", "kO", "x", "t42", "}">>,
      <<"data:", "sp", "{", "er", "x", "}">>,
      <<"data:", "{", "pg", "}">>,
      <<"data:", "sp", "{", "ns", "}">>,
      <<"{", "wf", "kA", "x", "}">>,
      <<"data:", "sp", "{", "wf", "x", "}">>,
      <<>> }

RECURSIVE JoinLines(_)
JoinLines(ls) ==
    IF ls = <<>> THEN <<>> ELSE Head(ls) \o <<"nl">> \o JoinLines(Tail(ls))

\* Bodies of at most MaxFrames of the given lines; the last line may lack its
\* newline.
BodiesOf(lines) ==
    LET full == UNION { {JoinLines(ls) : ls \in [1..n -> lines]} : n \in 0..MaxFrames }
    IN  full \cup {SubSeq(b, 1, Len(b) - 1) : b \in full \ {<<>>}}

Bodies == BodiesOf(BodyLines)

\* One frame of each event of the backend's protocol, and three lines that
\* are no frame: no data: prefix, no JSON object after it, JSON that does not
\* parse.
EventLines ==
    { <<"{", "wf", "kA", "x", "}">>,
      <<"data:", "sp", "x">>,
      <<"data:", "sp", "{", "wf", "x", "}">>,
      <<"data:", "sp", "{", "ws", "}">>,
      <<"data:", "sp", "{", "ns", "}">>,
      <<"data:", "sp", "{", "nf", "}">>,
      <<"data:", "sp", "{", "pg", "}">>,
      <<"data:", "sp", "{", "wf", "kA", "x", "}">>,
      <<"data:", "sp", "{", "er", "x", "}">> }

OutputsObjects == { {}, {<<"answer", <<"x">>>>}, {<<"other", <<"x">>>>},
                    {<<"answer", <<"x">>>>, <<"other", <<>>>>} }

\* The documents resp.json() can return: with or without data.outputs, with or
\* without data.total_tokens (-1).
JsonDocuments ==
    {[hasOutputs |-> FALSE, outputs |-> {}, total_tokens |-> -1]}
    \cup [hasOutputs : {TRUE}, outputs : OutputsObjects, total_tokens : {-1, 0, 42}]

NoDocument == [hasOutputs |-> FALSE, outputs |-> {}, total_tokens |-> -1]

Responses ==
    [status : {400, 503}, contentType : {"text/plain"}, json : {NoDocument},
     body : {<<>>, <<"x">>, <<"C3", "A9", "nl">>}]
    \cup [status : {200}, contentType : {"application/json"}, json : JsonDocuments,
           body : {<<>>}]
    \cup [status : {200}, contentType : {"text/event-stream"}, json : {NoDocument},
           body : Bodies]

\* No backend response: the fetch is not resolved yet, or it has rejected.
NoResponse == [status |-> 0, contentType |-> "", json |-> NoDocument, body |-> <<>>]

\* resp.ok
Ok(response) == response.status >= 200 /\ response.status <= 299

-----------------------------------------------------------------------------
(* The handler after  await fetch(config.DIFY_API_URL + apiPath, ...)  has *)
(* resolved with resp.                                                     *)

\* the closure state of the streaming 'data' handler
StreamState ==
    [buffer |-> buffer, isResponseEnded |-> isResponseEnded, res |-> res, frames |-> frames]

\* the closure state of the blocking path
BlockingState ==
    [buffer |-> buffer, result |-> result, usageData |-> usageData,
     hasError |-> hasError, res |-> res, frames |-> frames, break |-> FALSE]

\* if (!resp.ok) { ...; return; }
UpstreamFailed ==
    /\ pc = "fetch"
    /\ resp # NoResponse
    /\ ~Ok(resp)
    /\ res' = forwardUpstream(res, resp)
    /\ pc' = "done"
    /\ UNCHANGED <<stream, config, requestVars, resp, pos, buffer, isResponseEnded,
                   result, usageData, hasError, frames>>

\* await fetch(...) rejects (the backend cannot be reached): the catch block answers
FetchRejected ==
    /\ pc = "fetch"
    /\ resp = NoResponse
    /\ res' = sendError(res, "fetch failed")
    /\ pc' = "done"
    /\ UNCHANGED <<stream, config, requestVars, resp, pos, buffer, isResponseEnded,
                   result, usageData, hasError, frames>>

\* if (stream) { res.setHeader(...); let buffer = ""; resp.body.pipe(...).on("data", ...) }
StreamBegin ==
    /\ pc = "fetch"
    /\ Ok(resp)
    /\ stream
    /\ res' = [res EXCEPT !.contentType = "text/event-stream"]
    /\ buffer' = <<>>
    /\ isResponseEnded' = FALSE
    /\ pc' = "streaming"
    /\ UNCHANGED <<stream, config, requestVars, resp, pos, result, usageData,
                   hasError, frames>>

\* the backend stream emits its next chunk: the streaming 'data' handler runs
StreamData ==
    /\ pc = "streaming"
    /\ \E n \in 1..(Len(resp.body) - pos) :
          LET st == streamOnData(StreamState, SubSeq(resp.body, pos + 1, pos + n),
                                 config.OUTPUT_VARIABLE)
          IN  /\ pos' = pos + n
              /\ buffer' = st.buffer
              /\ isResponseEnded' = st.isResponseEnded
              /\ res' = st.res
              /\ frames' = st.frames
    /\ UNCHANGED <<pc, stream, config, requestVars, resp, result, usageData, hasError>>

\* the backend stream ends: responseStream.on("end", ...) only logs
StreamEnd ==
    /\ pc = "streaming"
    /\ pos = Len(resp.body)
    /\ pc' = "stream_end"
    /\ UNCHANGED <<stream, config, requestVars, responseVars>>

\* the content-type application/json branch of the blocking path
BlockingJson ==
    /\ pc = "fetch"
    /\ Ok(resp)
    /\ ~stream
    /\ resp.contentType = "application/json"
    /\ LET st == blockingJson(BlockingState, resp.json, config.OUTPUT_VARIABLE)
       IN  /\ result' = st.result
           /\ usageData' = st.usageData
           /\ res' = st.res
    /\ pc' = "done"
    /\ UNCHANGED <<stream, config, requestVars, resp, pos, buffer, isResponseEnded,
                   hasError, frames>>

\* const responseStream = resp.body; responseStream.on("data", ...); .on("end", ...)
CollectBegin ==
    /\ pc = "fetch"
    /\ Ok(resp)
    /\ ~stream
    /\ resp.contentType # "application/json"
    /\ pc' = "collecting"
    /\ UNCHANGED <<stream, config, requestVars, responseVars>>

\* the backend stream emits its next chunk: the collected 'data' handler runs
CollectData ==
    /\ pc = "collecting"
    /\ \E n \in 1..(Len(resp.body) - pos) :
          LET st == collectOnData(BlockingState, SubSeq(resp.body, pos + 1, pos + n),
                                  config.OUTPUT_VARIABLE)
          IN  /\ pos' = pos + n
              /\ buffer' = st.buffer
              /\ result' = st.result
              /\ usageData' = st.usageData
              /\ hasError' = st.hasError
              /\ frames' = st.frames
    /\ UNCHANGED <<pc, stream, config, requestVars, resp, isResponseEnded, res>>

\* the backend stream ends: the collected 'end' handler sends the response
CollectEnd ==
    /\ pc = "collecting"
    /\ pos = Len(resp.body)
    /\ res' = collectOnEnd(BlockingState).res
    /\ pc' = "done"
    /\ UNCHANGED <<stream, config, requestVars, resp, pos, buffer, isResponseEnded,
                   result, usageData, hasError, frames>>

Configs == [SYSTEM_INPUT_VARIABLE : {"", "sys", "file_input"},
            INPUT_VARIABLE : {"", "query", "file_input"},
            OUTPUT_VARIABLE : {"", "answer"}]

\* The state in which handleRequest awaits the workflow fetch.
InitResponse ==
    /\ pc = "fetch"
    /\ messages = <<>>
    /\ stream \in BOOLEAN
    /\ config \in {c \in Configs : c.SYSTEM_INPUT_VARIABLE = "" /\ c.INPUT_VARIABLE = ""}
    /\ scan = 0
    /\ uploads = <<>>
    /\ inputs = {}
    /\ systemPrompt = <<>>
    /\ userQuery = <<>>
    /\ fetched = 1
    /\ resp \in {r \in Responses \cup {NoResponse} : stream => r.contentType # "application/json"}
    /\ pos = 0
    /\ buffer = <<>>
    /\ isResponseEnded = FALSE
    /\ result = Str(<<>>)
    /\ usageData = -1
    /\ hasError = FALSE
    /\ frames = <<>>
    /\ res = NewRes

NextResponse ==
    \/ FetchRejected
    \/ UpstreamFailed
    \/ StreamBegin
    \/ StreamData
    \/ StreamEnd
    \/ BlockingJson
    \/ CollectBegin
    \/ CollectData
    \/ CollectEnd

SpecResponse == InitResponse /\ [][NextResponse]_vars

\* The same state for a streaming request whose backend answers 200 with a
\* body made of EventLines.
InitStreamEvents ==
    /\ pc = "fetch"
    /\ messages = <<>>
    /\ stream = TRUE
    /\ config \in {c \in Configs : c.SYSTEM_INPUT_VARIABLE = "" /\ c.INPUT_VARIABLE = ""}
    /\ scan = 0
    /\ uploads = <<>>
    /\ inputs = {}
    /\ systemPrompt = <<>>
    /\ userQuery = <<>>
    /\ fetched = 1
    /\ resp \in [status : {200}, contentType : {"text/event-stream"}, json : {NoDocument},
                  body : BodiesOf(EventLines)]
    /\ pos = 0
    /\ buffer = <<>>
    /\ isResponseEnded = FALSE
    /\ result = Str(<<>>)
    /\ usageData = -1
    /\ hasError = FALSE
    /\ frames = <<>>
    /\ res = NewRes

NextStream ==
    \/ StreamBegin
    \/ StreamData
    \/ StreamEnd

SpecStreamEvents == InitStreamEvents /\ [][NextStream]_vars

-----------------------------------------------------------------------------
(* handleRequest up to the workflow fetch. *)

Roles == {"system", "user", "assistant"}

\* The message contents the model draws from.
Contents ==
    { StringContent(<<"a">>),
      StringContent(<<"sp", "b", "nl">>),
      StringContent(<<"sp">>),
      ArrayContent(<<TextPart(<<"a">>), ImagePart("data:image/png;base64,AAAA")>>),
      ArrayContent(<<ImagePart("https://h/a.png"), ImagePart("data:image/jpg;base64,BBBB")>>),
      ArrayContent(<<ImagePart("data:oops")>>),
      ArrayContent(<<[type |-> "string", text |-> <<"b">>, url |-> ""],
                     [type |-> "input_audio", text |-> <<>>, url |-> ""]>>) }

Messages ==
    { [role |-> r, isArray |-> c.isArray, text |-> c.text, parts |-> c.parts] :
      r \in Roles, c \in Contents }

\* The ids the backend gives uploaded files.
FileIds == {"file-1", "file-2"}

RequestState ==
    [pc |-> pc, scan |-> scan, uploads |-> uploads, inputs |-> inputs,
     systemPrompt |-> systemPrompt, userQuery |-> userQuery, fetched |-> fetched,
     res |-> res]

\* the variables take the values of the request state st
Becomes(st) ==
    /\ pc' = st.pc
    /\ scan' = st.scan
    /\ uploads' = st.uploads
    /\ inputs' = st.inputs
    /\ systemPrompt' = st.systemPrompt
    /\ userQuery' = st.userQuery
    /\ fetched' = st.fetched
    /\ res' = st.res
    /\ UNCHANGED <<messages, stream, config, resp, pos, buffer, isResponseEnded,
                   result, usageData, hasError, frames>>

\* handleRequest is called and runs to its first await
Begin ==
    /\ pc = "start"
    /\ Becomes(runScan(RequestState, messages, config, 1))

\* POST /files/upload answers with a success status and {id}
UploadOk ==
    /\ pc = "uploading"
    /\ \E fileId \in FileIds :
          Becomes(uploadReturned(RequestState, messages, config, fileId))

\* POST /files/upload answers with a non-success status
UploadFail ==
    /\ pc = "uploading"
    /\ Becomes(uploadFailed(RequestState))

InitRequest ==
    /\ pc = "start"
    /\ messages \in UNION {[1..n -> Messages] : n \in 1..MaxMessages}
    /\ stream = FALSE
    /\ config \in {c \in Configs : c.OUTPUT_VARIABLE = ""}
    /\ scan = 0
    /\ uploads = <<>>
    /\ inputs = {}
    /\ systemPrompt = <<>>
    /\ userQuery = <<>>
    /\ fetched = 0
    /\ resp = NoResponse
    /\ pos = 0
    /\ buffer = <<>>
    /\ isResponseEnded = FALSE
    /\ result = Str(<<>>)
    /\ usageData = -1
    /\ hasError = FALSE
    /\ frames = <<>>
    /\ res = NewRes

NextRequest ==
    \/ Begin
    \/ UploadOk
    \/ UploadFail

SpecRequest == InitRequest /\ [][NextRequest]_vars

-----------------------------------------------------------------------------
(* Properties of the streaming path. *)

InStreamingPath == pc \in {"streaming", "stream_end"}

\* positions of the log holding a terminal chunk: a workflow_finished result
\* chunk or an error payload
TerminalWrites ==
    {i \in 1..Len(res.log) : res.log[i].op = "write"
                               /\ res.log[i].data \in {"chat.completion.chunk", "error"}}

\* positions of the log holding the [DONE] sentinel
SentinelWrites == {i \in 1..Len(res.log) : res.log[i] = WriteDone}

\* C1: in the streaming path at most one terminal chunk and at most one [DONE]
\* sentinel is ever written, and once a terminal frame has been handled the
\* response body is exactly one terminal chunk followed by one [DONE].
C1_OneTerminalChunk ==
    InStreamingPath =>
        /\ Cardinality(TerminalWrites) <= 1
        /\ Cardinality(SentinelWrites) <= 1
        /\ isResponseEnded =>
              /\ Cardinality(TerminalWrites) = 1
              /\ Cardinality(SentinelWrites) = 1
              /\ \A i \in TerminalWrites : res.log[i + 1] = WriteDone

\* C2: TERMINATED is sticky: once the latch is set no step of the streaming
\* path calls res.write or res.end again.
C2_TerminatedSticky ==
    [][(pc = "streaming" /\ isResponseEnded) => res'.log = res.log]_vars

\* C3: when the backend stream has ended, the client response has received
\* the [DONE] sentinel and has been ended.
C3_EndsWithSentinel ==
    pc = "stream_end" =>
        /\ SentinelWrites # {}
        /\ \E i \in 1..Len(res.log) : res.log[i] = End

\* the streaming handler's state after the whole body has arrived as one chunk
WholeBodyRun ==
    streamOnData([buffer |-> <<>>, isResponseEnded |-> FALSE,
                  res |-> [NewRes EXCEPT !.contentType = "text/event-stream"],
                  frames |-> <<>>],
                 resp.body, config.OUTPUT_VARIABLE)

\* C4: however the body was split into chunks, once all of it has arrived
\* the frames dispatched and the writes to the client are those of the body
\* delivered as one chunk.
C4_BufferJoin ==
    (InStreamingPath /\ pos = Len(resp.body)) =>
        /\ frames = WholeBodyRun.frames
        /\ res.log = WholeBodyRun.res.log

-----------------------------------------------------------------------------
(* Properties of the blocking path and of result extraction. *)

\* the chat.completion document sent to the client, if any
SentDocuments ==
    {i \in 1..Len(res.log) : res.log[i].data = "chat.completion"}

\* C8: blocking JSON path with OUTPUT_VARIABLE set: content is
\* data.outputs[OUTPUT_VARIABLE], usage.total_tokens is data.total_tokens
\* whenever that field is present, and 110 when it is absent.
C8_BlockingJsonTokens ==
    (pc = "done" /\ ~stream /\ Ok(resp) /\ resp.contentType = "application/json"
       /\ resp.json.hasOutputs /\ config.OUTPUT_VARIABLE # "") =>
        /\ Len(res.log) = 1
        /\ res.log[1].content = Get(resp.json.outputs, config.OUTPUT_VARIABLE)
        /\ resp.json.total_tokens # -1 => res.log[1].usage = resp.json.total_tokens
        /\ resp.json.total_tokens = -1 => res.log[1].usage = 110

\* what the specification says the content is for an outputs object
ClaimedContent(outputs) ==
    IF config.OUTPUT_VARIABLE = ""
    THEN [t |-> "object", s |-> <<>>, o |-> outputs, a |-> <<>>]
    ELSE IF config.OUTPUT_VARIABLE \in {p[1] : p \in outputs}
         THEN [t |-> "string", o |-> {}, a |-> <<>>,
               s |-> (CHOOSE p \in outputs : p[1] = config.OUTPUT_VARIABLE)[2]]
         ELSE [t |-> "undefined", s |-> <<>>, o |-> {}, a |-> <<>>]

\* the positions in frames of the workflow_finished frames
FinishedFrames == {i \in 1..Len(frames) : frames[i].event = "workflow_finished"}

\* C9: in each of the three response paths the emitted content is
\* outputs[OUTPUT_VARIABLE] when OUTPUT_VARIABLE is configured and the whole
\* outputs object otherwise: of the first workflow_finished frame when
\* streaming, of the JSON document in the blocking JSON path, of the last
\* workflow_finished frame in the collected path.
C9_SameExtraction ==
    /\ InStreamingPath =>
          \A i \in 1..Len(res.log) : res.log[i].data = "chat.completion.chunk" =>
              /\ FinishedFrames # {}
              /\ res.log[i].content =
                    ClaimedContent(frames[CHOOSE j \in FinishedFrames :
                                            \A k \in FinishedFrames : j <= k].outputs)
    /\ (pc = "done" /\ ~stream /\ Ok(resp) /\ resp.contentType = "application/json"
          /\ resp.json.hasOutputs) =>
          \A i \in SentDocuments : res.log[i].content = ClaimedContent(resp.json.outputs)
    /\ (pc = "done" /\ ~stream /\ Ok(resp) /\ resp.contentType # "application/json"
          /\ FinishedFrames # {}) =>
          \A i \in SentDocuments :
              res.log[i].content =
                  ClaimedContent(frames[CHOOSE j \in FinishedFrames :
                                          \A k \in FinishedFrames : j >= k].outputs)

\* C9 witness: the collected path has sent a document whose content is the
\* whole outputs object of a workflow_finished frame, OUTPUT_VARIABLE unset.
C9_Witness ==
    /\ pc = "done" /\ ~stream /\ Ok(resp) /\ resp.contentType # "application/json"
    /\ config.OUTPUT_VARIABLE = ""
    /\ \E i \in SentDocuments : res.log[i].content = Obj({<<"answer", <<"x">>>>})

\* C10: after a non-2xx backend response the client response is the upstream
\* status and the upstream body and nothing else, in both modes.
C10_UpstreamForwarded ==
    (resp # NoResponse /\ ~Ok(resp) /\ pc # "fetch") =>
        /\ pc = "done"
        /\ res.statusCode = resp.status
        /\ res.contentType = ""
        /\ Len(res.log) = 1
        /\ res.log[1].op = "send"
        /\ res.log[1].data = "body"
        /\ res.log[1].content.t = "string"
        /\ res.log[1].content.s = toString(resp.body)
        /\ frames = <<>>

\* C10 witness: a streaming request whose backend call failed has been answered.
C10_Witness == resp # NoResponse /\ ~Ok(resp) /\ stream /\ pc = "done" /\ res.statusCode = 503 /\ Len(res.log) = 1

-----------------------------------------------------------------------------
(* Properties of the image scan, the extraction and the input mapping. *)

\* the image_url parts of the request, in source order
Images == SelectSeq(AllParts(messages), IsImage)

\* inputs["file_input"], empty when the key is absent
FileInputs == Lookup(inputs, "file_input").a

\* the number of data: URIs among the first i images
DataBefore(i) == Cardinality({j \in 1..i : IsDataUri(Images[j].url)})

\* the images the scan has reached: those with a FileInput, and the one
\* whose upload is in flight or has failed
Reached == Len(FileInputs) + (IF pc \in {"uploading", "done"} THEN 1 ELSE 0)

\* inputs["file_input"] still holds the FileInputs: no configured variable
\* name has replaced it
FileInputKept ==
    ~(/\ pc = "fetch"
      /\ \/ inputVariable(config) = "file_input"
         \/ config.SYSTEM_INPUT_VARIABLE = "file_input" /\ systemPrompt # <<>>)

\* C5: every image the scan has handled has its FileInput: local_file with
\* the id the Uploader returned for that occurrence if its URL is a data: URI,
\* remote_url with the URL otherwise; the Uploader has been invoked exactly once
\* per data: URI reached and never for another URL; when the workflow request is
\* posted every image has been handled.
C5_ImageScan ==
    FileInputKept =>
    /\ Reached <= Len(Images)
    /\ \A i \in 1..Len(FileInputs) :
          IF IsDataUri(Images[i].url)
          THEN /\ FileInputs[i].transfer_method = "local_file"
               /\ FileInputs[i].upload_file_id \in FileIds
               /\ FileInputs[i].upload_file_id = uploads[DataBefore(i)].id
               /\ uploads[DataBefore(i)].url = Images[i].url
               /\ FileInputs[i].url = ""
          ELSE /\ FileInputs[i].transfer_method = "remote_url"
               /\ FileInputs[i].url = Images[i].url
               /\ FileInputs[i].upload_file_id = ""
    /\ Len(uploads) = DataBefore(Reached)
    /\ pc = "fetch" => Len(FileInputs) = Len(Images)

\* C5 witness: the workflow request is posted with a remote_url FileInput
\* followed by a local_file one.
C5_Witness ==
    /\ pc = "fetch"
    /\ FileInputKept
    /\ Len(FileInputs) >= 2
    /\ FileInputs[1].transfer_method = "remote_url"
    /\ FileInputs[2].transfer_method = "local_file"
    /\ Len(uploads) = 1

\* s without its leading and trailing whitespace
Strip(s) ==
    LET keep == {i \in 1..Len(s) : s[i] \notin Whitespace}
    IN  IF keep = {} THEN <<>>
        ELSE SubSeq(s, CHOOSE i \in keep : \A j \in keep : i <= j,
                       CHOOSE i \in keep : \A j \in keep : i >= j)

\* the texts of the first n parts, each followed by a newline
RECURSIVE PartsText(_, _)
PartsText(ps, n) ==
    IF n = 0 THEN <<>>
    ELSE PartsText(ps, n - 1)
         \o (IF ps[n].type \in {"string", "text"} THEN ps[n].text \o <<"nl">> ELSE <<>>)

\* the texts of the messages with the given role among the first n messages
RECURSIVE RoleText(_, _)
RoleText(role, n) ==
    IF n = 0 THEN <<>>
    ELSE RoleText(role, n - 1)
         \o (IF messages[n].role # role THEN <<>>
              ELSE IF messages[n].isArray
                   THEN PartsText(messages[n].parts, Len(messages[n].parts))
                   ELSE messages[n].text \o <<"nl">>)

HasSystemMessage == \E i \in 1..Len(messages) : messages[i].role = "system"

\* inputs[inputVariable]
MappedInput == Lookup(inputs, inputVariable(config))

\* C6 as stated: with a system message and SYSTEM_INPUT_VARIABLE unset,
\* inputs[inputVariable] is systemPrompt + "\n\n" + userQuery, also when the
\* system text is empty or whitespace-only.
C6_AlwaysMerged ==
    (pc = "fetch" /\ config.SYSTEM_INPUT_VARIABLE = "" /\ HasSystemMessage) =>
        MappedInput = Str(Strip(RoleText("system", Len(messages))) \o <<"nl", "nl">>
                          \o Strip(RoleText("user", Len(messages))))

\* C6 amended: with a system message and SYSTEM_INPUT_VARIABLE unset,
\* inputs[inputVariable] is systemPrompt + "\n\n" + userQuery, both trimmed,
\* when the trimmed system text is not empty, and userQuery alone, with no
\* separator, when it is empty.
C6_MergedWhenNonEmpty ==
    (pc = "fetch" /\ config.SYSTEM_INPUT_VARIABLE = "" /\ HasSystemMessage) =>
        LET sys == Strip(RoleText("system", Len(messages)))
            usr == Strip(RoleText("user", Len(messages)))
        IN  /\ sys # <<>> => MappedInput = Str(sys \o <<"nl", "nl">> \o usr)
            /\ sys = <<>> => MappedInput = Str(usr)
            /\ MappedInput.s # <<>> => MappedInput.s[1] \notin Whitespace

\* C6 witness: a system text and a user text that both needed trimming have
\* been merged.
C6_Witness ==
    /\ pc = "fetch" /\ config.SYSTEM_INPUT_VARIABLE = ""
    /\ Len(messages) = 2
    /\ messages[1].role = "system" /\ messages[1].text = <<"sp", "b", "nl">>
    /\ messages[2].role = "user" /\ messages[2].text = <<"sp", "b", "nl">>
    /\ MappedInput = Str(<<"b", "nl", "nl", "b">>)

\* C7: userQuery is the trimmed concatenation of the texts of all user
\* messages in order, systemPrompt that of all system messages, assistant
\* messages add to neither; for a single user text turn userQuery is that text
\* trimmed and systemPrompt is empty.
C7_AllMessagesScanned ==
    pc = "fetch" =>
        /\ userQuery = Strip(RoleText("user", Len(messages)))
        /\ systemPrompt = Strip(RoleText("system", Len(messages)))
        /\ (Len(messages) = 1 /\ messages[1].role = "user" /\ ~messages[1].isArray) =>
              /\ userQuery = Strip(messages[1].text)
              /\ systemPrompt = <<>>

\* C7 witness: two user turns, the first of them not the last message, are
\* both in userQuery.
C7_Witness ==
    /\ pc = "fetch"
    /\ Len(messages) = 2
    /\ messages[1].role = "user" /\ messages[1].text = <<"a">>
    /\ messages[2].role = "user" /\ messages[2].text = <<"sp", "b", "nl">>
    /\ userQuery = <<"a", "nl", "sp", "b">>
    /\ systemPrompt = <<>>


-----------------------------------------------------------------------------
(* Properties of the Uploader's failures and of the order of the uploads. *)

\* the last Uploader call has failed: it returned no id and is not in flight
UploaderFailed ==
    /\ uploads # <<>>
    /\ uploads[Len(uploads)].id = ""
    /\ pc # "uploading"

\* the message of the error the failed Uploader call threw
UploaderMessage ==
    IF uploads[Len(uploads)].posted THEN "upload failed" ELSE "Invalid base64 data"

\* C11: when the Uploader fails the request is over: the handler is done, the
\* failed call is the last Uploader call (one call per data: URI up to the
\* failed image, none for a later image), every earlier call returned an id,
\* /workflows/run has not been called, and the client has received exactly
\* one response: status 500 with the JSON document {error: message}.  A data:
\* URI that does not match data:<mime>;base64,<payload> fails without an
\* upload HTTP request, and it is the only URL that does.
C11_UploaderFailureAborts ==
    UploaderFailed =>
        /\ pc = "done"
        /\ fetched = 0
        /\ Len(uploads) = DataBefore(Len(FileInputs) + 1)
        /\ IsDataUri(Images[Len(FileInputs) + 1].url)
        /\ uploads[Len(uploads)].url = Images[Len(FileInputs) + 1].url
        /\ \A i \in 1..(Len(uploads) - 1) : uploads[i].posted /\ uploads[i].id \in FileIds
        /\ uploads[Len(uploads)].posted <=> MatchesBase64(uploads[Len(uploads)].url)
        /\ res.statusCode = 500
        /\ res.log = <<Call("json", "error", Str(<<UploaderMessage>>), -1)>>

\* C11 witness: the upload of the second image has been answered with a
\* non-success status and a later data: image is left without an upload.
C11_Witness ==
    /\ UploaderFailed
    /\ uploads[Len(uploads)].posted
    /\ Len(FileInputs) = 1
    /\ Len(Images) = 3
    /\ IsDataUri(Images[3].url)
    /\ Len(uploads) = 1

\* C11 witness: a data: URI of another shape has failed after an earlier
\* upload succeeded, with no HTTP request for it.
C11_MalformedWitness ==
    /\ UploaderFailed
    /\ ~uploads[Len(uploads)].posted
    /\ Len(uploads) = 2
    /\ uploads[1].id \in FileIds


-----------------------------------------------------------------------------
(* Properties of the collected path's response. *)

\* the request is not a stream request and the backend answered 2xx with a
\* content type other than application/json
InCollectedPath ==
    /\ pc \in {"collecting", "done"}
    /\ ~stream
    /\ Ok(resp)
    /\ resp.contentType # "application/json"

\* the 'data' handler has parsed an error frame
ErrorObserved == \E i \in 1..Len(frames) : frames[i].event = "error"

\* the backend body holds a complete line  data: {"event":"error",...}
ErrorLineSent ==
    LET lines == split(toString(resp.body))
    IN  \E i \in 1..(Len(lines) - 1) : trim(lines[i]) = <<"data:", "sp", "{", "er", "x", "}">>

\* C12: on the collected path nothing is sent before the backend stream ends;
\* at its end exactly one response is sent: if an error frame was observed,
\* status 500 with the fixed JSON error document and nothing extracted,
\* whatever workflow_finished frames came before or after it; otherwise one
\* Chat Response carrying result and usageData with status 200.  Every
\* complete error line of the body is observed.
C12_CollectedErrorOrResponse ==
    InCollectedPath =>
        /\ pc = "collecting" => res = NewRes
        /\ pc = "done" /\ ErrorObserved =>
              /\ res.statusCode = 500
              /\ res.log = <<ErrorDocument>>
        /\ pc = "done" /\ ~ErrorObserved =>
              /\ res.statusCode = 200
              /\ res.contentType = "application/json"
              /\ res.log = <<ChatResponse("send", result, usageData)>>
        /\ pc = "done" /\ ErrorLineSent => ErrorObserved

\* C12 witness: an error frame, then in a later chunk a workflow_finished
\* frame whose result was extracted; the response is the error document.
C12_Witness ==
    /\ InCollectedPath
    /\ pc = "done"
    /\ Len(frames) = 2
    /\ frames[1].event = "error"
    /\ frames[2].event = "workflow_finished"
    /\ result # Str(<<>>)
    /\ res.log = <<ErrorDocument>>

\* C12 witness: no error frame; the one response is the Chat Response.
C12_ResponseWitness ==
    /\ InCollectedPath
    /\ pc = "done"
    /\ frames # <<>>
    /\ ~ErrorObserved
    /\ res.log = <<ChatResponse("send", result, usageData)>>


-----------------------------------------------------------------------------
(* Properties of the streaming path's transitions. *)

\* the positions in frames of the workflow_finished and error frames
TerminalFrames ==
    {i \in 1..Len(frames) : frames[i].event \in {"workflow_finished", "error"}}

\* the frame received while the response was not terminated
FirstTerminal == CHOOSE i \in TerminalFrames : \A j \in TerminalFrames : i <= j

\* positions of the log holding a chat.completion.chunk
ChunkWrites == {i \in 1..Len(res.log) : res.log[i].data = "chat.completion.chunk"}

\* C13: a workflow_finished frame received while the response is not
\* terminated writes one chat.completion.chunk whose delta.content is the
\* whole result, then at once the [DONE] sentinel, then ends the response; a
\* workflow_finished frame received after termination writes nothing, so no
\* second chunk is ever written and no chunk follows an error frame.
C13_FinishedTransition ==
    (InStreamingPath /\ TerminalFrames # {}) =>
        /\ Cardinality(ChunkWrites) <= 1
        /\ frames[FirstTerminal].event = "workflow_finished" =>
              /\ Len(res.log) >= 3
              /\ SubSeq(res.log, 1, 3) =
                    <<WriteChunk(ClaimedContent(frames[FirstTerminal].outputs)), WriteDone, End>>
              /\ ChunkWrites = {1}
              /\ isResponseEnded
        /\ frames[FirstTerminal].event = "error" => ChunkWrites = {}
        /\ (\A i \in TerminalFrames : frames[i].event = "workflow_finished") =>
              Len(res.log) = 3

\* C13 witness: two workflow_finished frames have been handled and the log
\* is the chunk of the first, [DONE], end.
C13_Witness ==
    /\ InStreamingPath
    /\ Len(frames) = 2
    /\ FinishedFrames = {1, 2}
    /\ frames[1].outputs # frames[2].outputs
    /\ res.log = <<WriteChunk(ClaimedContent(frames[1].outputs)), WriteDone, End>>

\* C14: an error frame received while the response is not terminated writes
\* the payload {error: message}, then the [DONE] sentinel, then ends the
\* response, in that order, and sets the latch: whatever frames follow, the
\* sentinel is not written a second time.
C14_ErrorTransition ==
    (InStreamingPath /\ TerminalFrames # {} /\ frames[FirstTerminal].event = "error") =>
        /\ Len(res.log) >= 3
        /\ SubSeq(res.log, 1, 3) = <<WriteError(frames[FirstTerminal].message), WriteDone, End>>
        /\ isResponseEnded
        /\ SentinelWrites = {2}

\* C14 witness: an error frame, then a second error frame; one sentinel.
C14_Witness ==
    /\ InStreamingPath
    /\ Len(frames) = 2
    /\ frames[1].event = "error"
    /\ frames[2].event = "error"
    /\ SentinelWrites = {2}
    /\ Len(res.log) > 3

\* C15: in every state of a streaming response the [DONE] sentinel has been
\* written at most once, whatever workflow_finished and error frames have
\* been handled and however the chunks were cut.
C15_SentinelAtMostOnce ==
    InStreamingPath => Cardinality(SentinelWrites) <= 1

\* C15 witness: a workflow_finished frame and an error frame have both been
\* handled and the log holds one sentinel.
C15_Witness ==
    /\ InStreamingPath
    /\ Cardinality(TerminalFrames) = 2
    /\ frames[1].event = "workflow_finished"
    /\ frames[2].event = "error"
    /\ Cardinality(SentinelWrites) = 1


-----------------------------------------------------------------------------
(* Properties of the input mapping with SYSTEM_INPUT_VARIABLE configured. *)

\* the workflow request is posted and SYSTEM_INPUT_VARIABLE is configured
SeparateSystemInput == pc = "fetch" /\ config.SYSTEM_INPUT_VARIABLE # ""

\* systemPrompt + "\n\n" + userQuery
Merged == Str(systemPrompt \o <<"nl", "nl">> \o userQuery)

\* C16 as stated: with SYSTEM_INPUT_VARIABLE configured and systemPrompt not
\* empty, inputs[SYSTEM_INPUT_VARIABLE] is systemPrompt and
\* inputs[inputVariable] is userQuery, whatever the two names are; and the
\* merged form is never produced.
C16_SeparateForAllNames ==
    SeparateSystemInput =>
        /\ systemPrompt # <<>> =>
              /\ Lookup(inputs, config.SYSTEM_INPUT_VARIABLE) = Str(systemPrompt)
              /\ MappedInput = Str(userQuery)
        /\ MappedInput # Merged

\* C16 amended: the same for two different names; when SYSTEM_INPUT_VARIABLE
\* and inputVariable name the same key, the key holds userQuery, the later
\* assignment.  In both cases the merged form is never produced.
C16_SeparateForDistinctNames ==
    SeparateSystemInput =>
        /\ (systemPrompt # <<>> /\ config.SYSTEM_INPUT_VARIABLE # inputVariable(config)) =>
              Lookup(inputs, config.SYSTEM_INPUT_VARIABLE) = Str(systemPrompt)
        /\ MappedInput = Str(userQuery)
        /\ MappedInput # Merged

\* C16 witness: both keys are set, to two different non-empty texts.
C16_Witness ==
    /\ SeparateSystemInput
    /\ config.SYSTEM_INPUT_VARIABLE # inputVariable(config)
    /\ systemPrompt # <<>>
    /\ userQuery # <<>>
    /\ systemPrompt # userQuery
    /\ Lookup(inputs, config.SYSTEM_INPUT_VARIABLE) = Str(systemPrompt)
    /\ MappedInput = Str(userQuery)

\* C16 witness: one key for both, holding userQuery and not systemPrompt.
C16_SameNameWitness ==
    /\ SeparateSystemInput
    /\ config.SYSTEM_INPUT_VARIABLE = inputVariable(config)
    /\ systemPrompt # <<>>
    /\ systemPrompt # userQuery
    /\ MappedInput = Str(userQuery)


-----------------------------------------------------------------------------
(* Properties of the order of the uploads. *)

\* the uploads posted and not yet answered
InFlight ==
    {i \in 1..Len(uploads) : uploads[i].posted /\ uploads[i].id = "" /\ pc # "done"}

\* C17: the uploads of one request run one after the other: at most one
\* upload is in flight, and it is the last one begun; every upload begun
\* before it has returned its id; and /workflows/run is called once, when
\* every data: image of the request has its uploaded id.
C17_UploadsSequential ==
    /\ Cardinality(InFlight) <= 1
    /\ InFlight \subseteq {Len(uploads)}
    /\ InFlight # {} <=> pc = "uploading"
    /\ \A i \in 1..(Len(uploads) - 1) : uploads[i].id \in FileIds
    /\ fetched <= 1
    /\ fetched = 1 =>
          /\ pc = "fetch"
          /\ Len(uploads) = DataBefore(Len(Images))
          /\ \A i \in 1..Len(uploads) : uploads[i].id \in FileIds

\* C17 witness: the second upload is in flight after the first returned.
C17_Witness ==
    /\ pc = "uploading"
    /\ Len(uploads) = 2
    /\ InFlight = {2}
    /\ uploads[1].id \in FileIds

\* C17 witness: /workflows/run is called after two uploads returned.
C17_FetchWitness ==
    /\ fetched = 1
    /\ Len(uploads) = 2
    /\ uploads[1].id \in FileIds
    /\ uploads[2].id \in FileIds


-----------------------------------------------------------------------------
(* Properties of inputs["file_input"] in the workflow request. *)

\* the FileInput of the i-th image_url part
FileInputOf(i) ==
    IF IsDataUri(Images[i].url)
    THEN LocalFile(uploads[DataBefore(i)].id, Images[i].url)
    ELSE RemoteUrl(Images[i].url)

\* inputs["file_input"] is the array of the FileInputs of all image_url parts
\* in source order, and the key is absent when there is no image
FileInputPerImage ==
    IF Images # <<>>
    THEN /\ Lookup(inputs, "file_input").t = "array"
         /\ Len(FileInputs) = Len(Images)
         /\ \A i \in 1..Len(Images) : FileInputs[i] = FileInputOf(i)
    ELSE ~Has(inputs, "file_input")

\* C18 as stated: in the workflow request inputs["file_input"] is the array
\* of one FileInput per image_url part, in source order, local_file and
\* remote_url entries interleaved, and it is absent when there is no image.
C18_FileInputPerImage ==
    pc = "fetch" => FileInputPerImage

\* C18 amended: the same when no configured variable name that is assigned
\* is "file_input"; when INPUT_VARIABLE is "file_input", or
\* SYSTEM_INPUT_VARIABLE is and systemPrompt is not empty, the key holds the
\* text assigned to that variable, images or not.
C18_FileInputUnlessRenamed ==
    pc = "fetch" =>
        /\ FileInputKept => FileInputPerImage
        /\ ~FileInputKept => Lookup(inputs, "file_input").t = "string"

\* C18 witness: three images in two messages, the workflow request carries
\* a local_file, a remote_url and a local_file entry in that order.
C18_Witness ==
    /\ pc = "fetch"
    /\ FileInputKept
    /\ Len(Images) = 3
    /\ FileInputs = <<FileInputOf(1), FileInputOf(2), FileInputOf(3)>>
    /\ FileInputs[1].transfer_method = "local_file"
    /\ FileInputs[2].transfer_method = "remote_url"
    /\ FileInputs[3].transfer_method = "local_file"
    /\ FileInputs[1].upload_file_id # FileInputs[3].upload_file_id

\* C18 witness: no image, and no file_input key.
C18_AbsentWitness ==
    /\ pc = "fetch"
    /\ FileInputKept
    /\ Images = <<>>
    /\ ~Has(inputs, "file_input")


-----------------------------------------------------------------------------
(* Properties of the streaming path's handling of lines and of the frames *)
(* it does not forward.                                                    *)

\* the complete lines the backend has delivered so far
DeliveredLines ==
    LET lines == split(SubSeq(resp.body, 1, pos))
    IN  SubSeq(lines, 1, Len(lines) - 1)

\* what follows the data: prefix of a line
Payload(line) == trim(slice(trim(line), 1))

\* the line is a frame: data: prefix, then a JSON object that parses
IsFrame(line) ==
    /\ startsWith(trim(line), <<"data:">>)
    /\ startsWith(Payload(line), <<"{">>)
    /\ JSONparse(Payload(line)).ok

\* the delivered lines that are frames
DeliveredFrames == SelectSeq(DeliveredLines, IsFrame)

\* the handler's state after the first n frames alone, with no line between
\* them
RECURSIVE Dispatched(_)
Dispatched(n) ==
    IF n = 0
    THEN [buffer |-> <<>>, isResponseEnded |-> FALSE, frames |-> <<>>,
          res |-> [NewRes EXCEPT !.contentType = "text/event-stream"]]
    ELSE streamDispatch([Dispatched(n - 1) EXCEPT !.frames = Append(@, frames[n])],
                        frames[n], config.OUTPUT_VARIABLE)

\* C19: a line that is no frame (no data: prefix, no "{" after the prefix, or
\* JSON that does not parse) is skipped: the frames handled are exactly the
\* well-formed complete lines delivered so far, in order, those after a
\* malformed line included, in the same chunk or a later one; and the response
\* and the latch are what these frames alone produce, so a skipped line
\* writes nothing and changes no state.
C19_MalformedLineSkipped ==
    InStreamingPath =>
        /\ Len(frames) = Len(DeliveredFrames)
        /\ \A i \in 1..Len(frames) : frames[i] = JSONparse(Payload(DeliveredFrames[i]))
        /\ res = Dispatched(Len(frames)).res
        /\ isResponseEnded = Dispatched(Len(frames)).isResponseEnded
        /\ frames = <<>> => res.log = <<>> /\ ~isResponseEnded

\* C19 witness: a line whose JSON does not parse, then a workflow_finished
\* frame that was handled.
C19_Witness ==
    /\ InStreamingPath
    /\ Len(DeliveredLines) = 2
    /\ DeliveredLines[1] = <<"data:", "sp", "{", "wf", "x", "}">>
    /\ ~IsFrame(DeliveredLines[1])
    /\ IsFrame(DeliveredLines[2])
    /\ Len(frames) = 1
    /\ frames[1].event = "workflow_finished"
    /\ Len(res.log) = 3

\* C19 witness: a line without the prefix and a line without a JSON object,
\* nothing written.
C19_SkippedWitness ==
    /\ InStreamingPath
    /\ DeliveredLines = << <<"{", "wf", "kA", "x", "}">>, <<"data:", "sp", "x">> >>
    /\ frames = <<>>
    /\ res.log = <<>>
    /\ ~isResponseEnded

\* the events of the frames that are not forwarded
NoOpEvents == {"workflow_started", "node_started", "node_finished", "ping"}

\* C20: a run of the 'data' handler that handles only workflow_started,
\* node_started, node_finished and ping frames leaves the response (no write,
\* no end, same status) and the terminated latch as they were.
C20_NoOpFrames ==
    [][(/\ pc = "streaming"
        /\ \A i \in (Len(frames) + 1)..Len(frames') : frames'[i].event \in NoOpEvents)
       => (res' = res /\ isResponseEnded' = isResponseEnded)]_vars

\* C20 witness: a node_started frame and a ping frame have been handled,
\* nothing is written and the response is not terminated.
C20_Witness ==
    /\ InStreamingPath
    /\ Len(frames) = 2
    /\ frames[1].event = "node_started"
    /\ frames[2].event = "ping"
    /\ res.log = <<>>
    /\ ~isResponseEnded

\* C20 witness: a ping frame handled after the response was terminated.
C20_TerminatedWitness ==
    /\ InStreamingPath
    /\ Len(frames) = 2
    /\ frames[1].event = "workflow_finished"
    /\ frames[2].event = "ping"
    /\ Len(res.log) = 3
    /\ isResponseEnded


-----------------------------------------------------------------------------
(* The two line parsers compared. *)

\* the complete lines of the text the backend has delivered so far
DeliveredText ==
    LET lines == split(toString(SubSeq(resp.body, 1, pos)))
    IN  SubSeq(lines, 1, Len(lines) - 1)

\* the frames the streaming loop takes from the one line, handled alone
StreamParsed(line) ==
    streamLine([buffer |-> <<>>, isResponseEnded |-> FALSE, res |-> NewRes, frames |-> <<>>],
               line, config.OUTPUT_VARIABLE).frames

\* the frames the collected loop takes from the one line, handled alone
CollectParsed(line) ==
    collectLine([buffer |-> <<>>, result |-> Str(<<>>), usageData |-> -1, hasError |-> FALSE,
                 res |-> NewRes, frames |-> <<>>, break |-> FALSE],
                line, config.OUTPUT_VARIABLE).frames

\* C21: every line the backend has delivered, to either path, is a frame
\* for the collected path's loop if and only if it is one for the streaming
\* path's loop, and both parse it to the same object; this includes a line
\* without the data: prefix and a line  data:{...}  with no space.
C21_SameFrameParser ==
    pc \in {"streaming", "stream_end", "collecting"} =>
        \A i \in 1..Len(DeliveredText) :
            CollectParsed(DeliveredText[i]) = StreamParsed(DeliveredText[i])


-----------------------------------------------------------------------------
(* Properties of the answer to a request that is not a stream request. *)

\* the documents sent: res.json(...) and res.send(...) calls
Documents == {i \in 1..Len(res.log) : res.log[i].op \in {"json", "send"}}

\* C22: a request that is not a stream request is answered with exactly one
\* document on every path: nothing is sent, written or ended before the
\* handler is done, and when it is done (the backend call rejected, answered
\* non-2xx, answered JSON, or its stream ended with or without an error
\* frame) one document has been sent and nothing else.
C22_OneResponseDocument ==
    ~stream =>
        /\ pc # "done" => res.log = <<>>
        /\ pc = "done" => Len(res.log) = 1 /\ Documents = {1}

\* C22 witness: the backend call rejected and the catch block has answered
\* with the one error document.
C22_Witness ==
    /\ ~stream
    /\ pc = "done"
    /\ resp = NoResponse
    /\ res.statusCode = 500
    /\ res.log = <<Call("json", "error", Str(<<"fetch failed">>), -1)>>

\* C22 witness: the collected path has answered an error frame followed by a
\* workflow_finished frame with one document.
C22_CollectedWitness ==
    /\ ~stream
    /\ pc = "done"
    /\ hasError
    /\ FinishedFrames # {}
    /\ Documents = {1}

\* C22 witness: the JSON path has answered with one document.
C22_JsonWitness ==
    /\ ~stream
    /\ pc = "done"
    /\ Ok(resp)
    /\ resp.contentType = "application/json"
    /\ Documents = {1}

=============================================================================
